---------------------------- MODULE Spec2Model ----------------------------
(***************************************************************************)
(* Model of lecs/07_parallelism/parallel_quicksort.cpp: the sequential     *)
(* quicksort (quicksort_seq), the fork-join quicksort (quicksort_parallel) *)
(* and the top-level call made by benchmark.                               *)
(*                                                                         *)
(* The vector is a function on 0..n-1 (the source's indices).  Every       *)
(* thread (the caller's thread and one thread per std::async task) has a   *)
(* call stack of frames; one action is one step of the frame on top of one *)
(* thread's stack.  A comparison of the element type may throw.            *)
(*                                                                         *)
(* Also modelled, each with its own variables and specification: the       *)
(* matrix multiply functions of matrix_multiplication.h and the pthread    *)
(* matrix multiplication of lecs/06_multi_core/pthreads/matrix_mul.c.      *)
(***************************************************************************)
EXTENDS Integers, Sequences, FiniteSets, TLC

\* Bounds of the model: the longest vector, the largest element value, and
\* the largest SEQUENTIAL_THRESHOLD and MAX_DEPTH a run is configured with.
\* Two threads work on the vector at once only from 5 elements on (each
\* side of the first partition needs two).
MaxLen == 5
MaxVal == 3
MaxThreshold == 1
MaxDepthCfg == 2

\* The longest vector of the runs of quicksort_seq on all-equal and on
\* strictly descending vectors.
MaxSeqLen == 7

\* Bounds of the calls of the matrix multiply functions: the largest A.rows,
\* A.cols and B.rows, the largest B.cols (past the vector width, so that a row
\* has a full vector and a remainder), the number of entries of a matrix that
\* are 1 (the others are 0), and the largest tile_size passed explicitly.
MaxDim == 2
MaxCols == 5
MaxNonzero == 1
MaxTile == 2

\* Bounds of the runs of the pthread matrix multiplication (matrix_mul.c): the
\* largest MATRIX_SIZE, and the largest thread count given on the command
\* line (larger than MATRIX_SIZE, so that there are more threads than rows).
MaxMatrixSize == 3
MaxThreadArg == 4

VARIABLES
    arr,                    \* std::vector<T>& arr, shared by all threads
    input,                  \* the vector as handed to the top-level call
    SEQUENTIAL_THRESHOLD,   \* line 52 (10000 there; here fixed per run by Init)
    MAX_DEPTH,              \* line 53 (4 there; here fixed per run by Init)
    threads,                \* thread id -> [stack, status, unwinding, exc, log]
    joins,                  \* task id -> number of times its thread was joined
    argA,                   \* const Matrix& A of a call of a matrix multiply
    argB,                   \* const Matrix& B of that call
    call,                   \* the multiply function that was called, or "none"
    error,                  \* the exception the call threw, or "none"
    result,                 \* the Matrix the call returned
    MATRIX_SIZE,            \* matrix_mul.c line 7 (1024 there; fixed per run by Init)
    argc,                   \* 1: no thread count on the command line, 2: one
    argv1,                  \* atoi(argv[1])
    num_threads,            \* line 77
    rows_per_thread,        \* line 112
    thread_args,            \* line 111: index -> [start_row, end_row], as assigned
    workers,                \* line 110: index -> the thread created for it
    mainpc,                 \* where main is
    loop_i,                 \* the i of the loop main is in (lines 116, 124)
    writers,                \* <<i, j>> -> the threads that wrote matrixC_parallel[i][j]
    verified                \* what verify_results returned (line 135)

\* The state of the sort (parallel_quicksort.cpp) and the state of a call of
\* one of the matrix multiply functions (matrix_multiplication.h): two
\* programs, each idle in the runs of the other.
sortvars == <<arr, input, SEQUENTIAL_THRESHOLD, MAX_DEPTH, threads, joins>>

matvars == <<argA, argB, call, error, result>>

\* The state of the pthread matrix multiplication (matrix_mul.c), a third
\* program.
pthvars ==
    <<MATRIX_SIZE, argc, argv1, num_threads, rows_per_thread, thread_args,
      workers, mainpc, loop_i, writers, verified>>

vars == <<sortvars, matvars, pthvars>>

----------------------------------------------------------------------------
\* Identities of threads.  The caller's thread is <<>>; the task forked by the
\* k-th frame of thread t's stack is Append(t, k) (a frame forks at most once).

Main == <<>>

NoFuture == <<-1>>

TaskId(t) == Append(t, Len(threads[t].stack))

Values == 1..MaxVal

\* arr.size()
Size(a) == Cardinality(DOMAIN a)

----------------------------------------------------------------------------
\* Frames

Frame(fn, left, right, depth) ==
    [fn |-> fn, left |-> left, right |-> right, depth |-> depth,
     pc |-> "entry", mid |-> 0, pivot |-> 0, i |-> 0, j |-> 0,
     left_future |-> NoFuture]

Stack(t) == threads[t].stack

Running(t) == threads[t].status = "running" /\ ~threads[t].unwinding

Top(t) == Stack(t)[Len(Stack(t))]

AtPc(t, fns, pcs) ==
    /\ Running(t)
    /\ Top(t).fn \in fns
    /\ Top(t).pc \in pcs

\* The stack of t with its top frame replaced by f.
WithTop(t, f) == [Stack(t) EXCEPT ![Len(Stack(t))] = f]

Swap_Assign(a, x, y) == [a EXCEPT ![x] = a[y]]

Swap(a, x, y) == [a EXCEPT ![x] = a[y], ![y] = a[x]]

Cmp(x, y) == <<"cmp", x, y>>

Swp(x, y) == <<"swap", x, y>>

\* t's stack becomes s, and t's log grows by the operations ops.
Continue(t, s, ops) ==
    [threads EXCEPT ![t].stack = s, ![t].log = @ \o ops]

----------------------------------------------------------------------------
\* The decisions of the code, one definition each.

SeqBaseCase_Strict(left, right) == left > right

SeqBaseCase_UnderThree(left, right) == right - left < 2

\* line 13
SeqBaseCase(left, right) == left >= right

UseSequential_Strict(left, right, depth) ==
    right - left < SEQUENTIAL_THRESHOLD \/ depth >= MAX_DEPTH

UseSequential_NoDepthCap(left, right, depth) ==
    right - left <= SEQUENTIAL_THRESHOLD

\* line 55
UseSequential(left, right, depth) ==
    right - left <= SEQUENTIAL_THRESHOLD \/ depth >= MAX_DEPTH

Mid_FromZero(left, right) == (right - left) \div 2

\* lines 18 and 61
Mid(left, right) == left + (right - left) \div 2

LeftRange_KeepsPivot(left, right, i) == [left |-> left, right |-> i]

\* line 42
LeftRange(left, right, i) == [left |-> left, right |-> i - 1]

\* line 43
RightRange(left, right, i) == [left |-> i + 1, right |-> right]

TaskRange_Whole(left, right, i) == [left |-> left, right |-> right]

\* line 88: the range the task is bound to
TaskRange(left, right, i) == [left |-> left, right |-> i - 1]

InlineRange_KeepsPivot(left, right, i) == [left |-> i, right |-> right]

\* line 92: the range the forking frame sorts itself
InlineRange(left, right, i) == [left |-> i + 1, right |-> right]

ChildDepth_Same(depth) == depth

\* lines 88 and 92
ChildDepth(depth) == depth + 1

FutureDtorReady_NoBlock(f) == TRUE

\* ~future() of a future obtained from std::async(std::launch::async, ...)
\* blocks until the task has finished (lines 86-87, scope exit at line 96).
FutureDtorReady(f) ==
    IF f.left_future = NoFuture
    THEN TRUE
    ELSE threads[f.left_future].status = "done"

Joined_Again(f) ==
    IF f.left_future = NoFuture
    THEN joins
    ELSE [joins EXCEPT ![f.left_future] = @ + 1]

\* Joining the task's thread happens once per shared state: by wait() at
\* line 95, or by ~future() when wait() was not reached.
Joined(f) ==
    IF f.left_future = NoFuture
    THEN joins
    ELSE [joins EXCEPT ![f.left_future] = IF @ > 0 THEN @ ELSE @ + 1]

----------------------------------------------------------------------------
\* struct Matrix (matrix_multiplication.h): rows, cols and the row-major data.

NoMatrix == [rows |-> 0, cols |-> 0, data |-> <<>>]

\* No matrix multiply is called in a run of the sort.
NoMultiply ==
    /\ argA = NoMatrix
    /\ argB = NoMatrix
    /\ call = "none"
    /\ error = "none"
    /\ result = NoMatrix

\* matrix_mul.c is not run in a run of the sort or of a matrix multiply.
NoPthreads ==
    /\ MATRIX_SIZE = 0
    /\ argc = 0
    /\ argv1 = 0
    /\ num_threads = 0
    /\ rows_per_thread = 0
    /\ thread_args = <<>>
    /\ workers = <<>>
    /\ mainpc = "idle"
    /\ loop_i = 0
    /\ writers = <<>>
    /\ verified = FALSE

----------------------------------------------------------------------------
Init ==
    /\ \E n \in 0..MaxLen : arr \in [0..(n - 1) -> Values]
    /\ input = arr
    /\ SEQUENTIAL_THRESHOLD \in 0..MaxThreshold
    /\ MAX_DEPTH \in 0..MaxDepthCfg
    \* benchmark, line 142: quicksort_parallel(vec, 0, vec.size() - 1), depth 0;
    \* for an empty vector the int argument right is -1
    /\ threads = (Main :> [stack |-> <<Frame("par", 0, Size(arr) - 1, 0)>>,
                           status |-> "running", unwinding |-> FALSE,
                           exc |-> FALSE, log |-> <<>>])
    /\ joins = <<>>
    /\ NoMultiply
    /\ NoPthreads

----------------------------------------------------------------------------
\* Leaving a frame.  exc says whether an exception is leaving it.  When the
\* last frame of a thread is left the thread is done; exc is then what its
\* caller (for a task: the shared state of its future) receives.

Popped(t, exc) ==
    LET s == SubSeq(Stack(t), 1, Len(Stack(t)) - 1) IN
    [threads EXCEPT ![t].stack = s,
                    ![t].status = IF s = <<>> THEN "done" ELSE @,
                    ![t].exc = IF s = <<>> THEN exc ELSE @]

Pushed(t, f, g, ops) == Continue(t, Append(WithTop(t, f), g), ops)

----------------------------------------------------------------------------
\* quicksort_seq, lines 12-15: base case
SeqReturnBase(t) ==
    /\ AtPc(t, {"seq"}, {"entry"})
    /\ SeqBaseCase(Top(t).left, Top(t).right)
    /\ threads' = Popped(t, FALSE)
    /\ UNCHANGED <<arr, input, SEQUENTIAL_THRESHOLD, MAX_DEPTH, joins, matvars, pthvars>>

\* quicksort_seq, lines 13, 18
SeqEnter(t) ==
    /\ AtPc(t, {"seq"}, {"entry"})
    /\ ~SeqBaseCase(Top(t).left, Top(t).right)
    /\ threads' = Continue(t, WithTop(t, [Top(t) EXCEPT
                        !.pc = "med1", !.mid = Mid(Top(t).left, Top(t).right)]), <<>>)
    /\ UNCHANGED <<arr, input, SEQUENTIAL_THRESHOLD, MAX_DEPTH, joins, matvars, pthvars>>

\* quicksort_parallel, lines 55-57: delegate to quicksort_seq
ParDelegate(t) ==
    /\ AtPc(t, {"par"}, {"entry"})
    /\ UseSequential(Top(t).left, Top(t).right, Top(t).depth)
    /\ threads' = Pushed(t, [Top(t) EXCEPT !.pc = "ret"],
                         Frame("seq", Top(t).left, Top(t).right, 0), <<>>)
    /\ UNCHANGED <<arr, input, SEQUENTIAL_THRESHOLD, MAX_DEPTH, joins, matvars, pthvars>>

\* quicksort_parallel, lines 55, 61
ParEnter(t) ==
    /\ AtPc(t, {"par"}, {"entry"})
    /\ ~UseSequential(Top(t).left, Top(t).right, Top(t).depth)
    /\ threads' = Continue(t, WithTop(t, [Top(t) EXCEPT
                        !.pc = "med1", !.mid = Mid(Top(t).left, Top(t).right)]), <<>>)
    /\ UNCHANGED <<arr, input, SEQUENTIAL_THRESHOLD, MAX_DEPTH, joins, matvars, pthvars>>

CompareSwap_Never(a, x, y) == a

\* One compare-and-swap of the median of three: if (a[x] < a[y]) swap.
CompareSwap(a, x, y) == IF a[x] < a[y] THEN Swap(a, x, y) ELSE a

CompareSwapOps(a, x, y) ==
    IF a[x] < a[y] THEN <<Cmp(x, y), Swp(x, y)>> ELSE <<Cmp(x, y)>>

\* lines 19-21 and 62-64
Median1(t) ==
    /\ AtPc(t, {"seq", "par"}, {"med1"})
    /\ arr' = CompareSwap(arr, Top(t).mid, Top(t).left)
    /\ threads' = Continue(t, WithTop(t, [Top(t) EXCEPT !.pc = "med2"]),
                           CompareSwapOps(arr, Top(t).mid, Top(t).left))
    /\ UNCHANGED <<input, SEQUENTIAL_THRESHOLD, MAX_DEPTH, joins, matvars, pthvars>>

\* lines 22-24 and 65-67
Median2(t) ==
    /\ AtPc(t, {"seq", "par"}, {"med2"})
    /\ arr' = CompareSwap(arr, Top(t).right, Top(t).left)
    /\ threads' = Continue(t, WithTop(t, [Top(t) EXCEPT !.pc = "med3"]),
                           CompareSwapOps(arr, Top(t).right, Top(t).left))
    /\ UNCHANGED <<input, SEQUENTIAL_THRESHOLD, MAX_DEPTH, joins, matvars, pthvars>>

\* lines 25-31 and 68-74: the third compare-and-swap, then pivot = arr[right],
\* i = left - 1, j = left
Median3(t) ==
    /\ AtPc(t, {"seq", "par"}, {"med3"})
    /\ arr' = CompareSwap(arr, Top(t).mid, Top(t).right)
    /\ threads' = Continue(t, WithTop(t, [Top(t) EXCEPT
                        !.pc = "scan", !.pivot = arr'[Top(t).right],
                        !.i = Top(t).left - 1, !.j = Top(t).left]),
                           CompareSwapOps(arr, Top(t).mid, Top(t).right))
    /\ UNCHANGED <<input, SEQUENTIAL_THRESHOLD, MAX_DEPTH, joins, matvars, pthvars>>

Scan_Inclusive(t) ==
    /\ AtPc(t, {"seq", "par"}, {"scan"})
    /\ Top(t).j <= Top(t).right
    /\ IF arr[Top(t).j] <= Top(t).pivot
       THEN /\ arr' = Swap(arr, Top(t).i + 1, Top(t).j)
            /\ threads' = Continue(t, WithTop(t, [Top(t) EXCEPT
                                !.i = @ + 1, !.j = @ + 1]),
                                   <<Cmp(Top(t).j, Top(t).right),
                                     Swp(Top(t).i + 1, Top(t).j)>>)
       ELSE /\ arr' = arr
            /\ threads' = Continue(t, WithTop(t, [Top(t) EXCEPT !.j = @ + 1]),
                                   <<Cmp(Top(t).j, Top(t).right)>>)
    /\ UNCHANGED <<input, SEQUENTIAL_THRESHOLD, MAX_DEPTH, joins, matvars, pthvars>>

\* lines 32-37 and 75-80: one iteration of the partition loop
Scan(t) ==
    /\ AtPc(t, {"seq", "par"}, {"scan"})
    /\ Top(t).j < Top(t).right
    /\ IF arr[Top(t).j] <= Top(t).pivot
       THEN /\ arr' = Swap(arr, Top(t).i + 1, Top(t).j)
            /\ threads' = Continue(t, WithTop(t, [Top(t) EXCEPT
                                !.i = @ + 1, !.j = @ + 1]),
                                   <<Cmp(Top(t).j, Top(t).right),
                                     Swp(Top(t).i + 1, Top(t).j)>>)
       ELSE /\ arr' = arr
            /\ threads' = Continue(t, WithTop(t, [Top(t) EXCEPT !.j = @ + 1]),
                                   <<Cmp(Top(t).j, Top(t).right)>>)
    /\ UNCHANGED <<input, SEQUENTIAL_THRESHOLD, MAX_DEPTH, joins, matvars, pthvars>>

PlacePivot_NoIncrement(t) ==
    /\ AtPc(t, {"seq", "par"}, {"scan"})
    /\ ~(Top(t).j < Top(t).right)
    /\ Top(t).i >= Top(t).left
    /\ arr' = Swap(arr, Top(t).i, Top(t).right)
    /\ threads' = Continue(t, WithTop(t, [Top(t) EXCEPT
                        !.pc = IF Top(t).fn = "seq" THEN "recL" ELSE "fork"]),
                           <<Swp(Top(t).i, Top(t).right)>>)
    /\ UNCHANGED <<input, SEQUENTIAL_THRESHOLD, MAX_DEPTH, joins, matvars, pthvars>>

\* lines 32, 38-39 and 75, 81-82: the loop ends, the pivot is put at index i
PlacePivot(t) ==
    /\ AtPc(t, {"seq", "par"}, {"scan"})
    /\ ~(Top(t).j < Top(t).right)
    /\ arr' = Swap(arr, Top(t).i + 1, Top(t).right)
    /\ threads' = Continue(t, WithTop(t, [Top(t) EXCEPT
                        !.i = @ + 1,
                        !.pc = IF Top(t).fn = "seq" THEN "recL" ELSE "fork"]),
                           <<Swp(Top(t).i + 1, Top(t).right)>>)
    /\ UNCHANGED <<input, SEQUENTIAL_THRESHOLD, MAX_DEPTH, joins, matvars, pthvars>>

\* line 42
SeqRecurseLeft(t) ==
    /\ AtPc(t, {"seq"}, {"recL"})
    /\ LET r == LeftRange(Top(t).left, Top(t).right, Top(t).i) IN
       threads' = Pushed(t, [Top(t) EXCEPT !.pc = "recR"],
                         Frame("seq", r.left, r.right, 0), <<>>)
    /\ UNCHANGED <<arr, input, SEQUENTIAL_THRESHOLD, MAX_DEPTH, joins, matvars, pthvars>>

\* line 43
SeqRecurseRight(t) ==
    /\ AtPc(t, {"seq"}, {"recR"})
    /\ LET r == RightRange(Top(t).left, Top(t).right, Top(t).i) IN
       threads' = Pushed(t, [Top(t) EXCEPT !.pc = "ret"],
                         Frame("seq", r.left, r.right, 0), <<>>)
    /\ UNCHANGED <<arr, input, SEQUENTIAL_THRESHOLD, MAX_DEPTH, joins, matvars, pthvars>>

\* lines 86-89: std::async(std::launch::async, ...) starts a thread that runs
\* quicksort_parallel(arr, left, i - 1, depth + 1)
Fork(t) ==
    /\ AtPc(t, {"par"}, {"fork"})
    /\ LET r == TaskRange(Top(t).left, Top(t).right, Top(t).i)
           id == TaskId(t)
       IN  /\ threads' =
                 Continue(t, WithTop(t, [Top(t) EXCEPT !.pc = "inline",
                                                      !.left_future = id]), <<>>)
                 @@ (id :> [stack |-> <<Frame("par", r.left, r.right,
                                              ChildDepth(Top(t).depth))>>,
                            status |-> "running", unwinding |-> FALSE,
                            exc |-> FALSE, log |-> <<>>])
           /\ joins' = joins @@ (id :> 0)
    /\ UNCHANGED <<arr, input, SEQUENTIAL_THRESHOLD, MAX_DEPTH, matvars, pthvars>>

\* line 92
Inline(t) ==
    /\ AtPc(t, {"par"}, {"inline"})
    /\ LET r == InlineRange(Top(t).left, Top(t).right, Top(t).i) IN
       threads' = Pushed(t, [Top(t) EXCEPT !.pc = "wait"],
                         Frame("par", r.left, r.right, ChildDepth(Top(t).depth)),
                         <<>>)
    /\ UNCHANGED <<arr, input, SEQUENTIAL_THRESHOLD, MAX_DEPTH, joins, matvars, pthvars>>

\* line 95: left_future.wait() blocks until the task has finished; it does
\* not look at the task's result, so an exception stored there stays there.
Wait(t) ==
    /\ AtPc(t, {"par"}, {"wait"})
    /\ threads[Top(t).left_future].status = "done"
    /\ joins' = Joined(Top(t))
    /\ threads' = Continue(t, WithTop(t, [Top(t) EXCEPT !.pc = "ret"]), <<>>)
    /\ UNCHANGED <<arr, input, SEQUENTIAL_THRESHOLD, MAX_DEPTH, matvars, pthvars>>

\* lines 44, 57 and 96: return from the frame; ~future() runs at line 96
Return(t) ==
    /\ AtPc(t, {"seq", "par"}, {"ret"})
    /\ FutureDtorReady(Top(t))
    /\ joins' = Joined(Top(t))
    /\ threads' = Popped(t, FALSE)
    /\ UNCHANGED <<arr, input, SEQUENTIAL_THRESHOLD, MAX_DEPTH, matvars, pthvars>>

\* lines 19, 22, 25, 33 and 62, 65, 68, 76: operator< or operator<= of T throws
CompareThrows(t) ==
    /\ \/ AtPc(t, {"seq", "par"}, {"med1", "med2", "med3"})
       \/ AtPc(t, {"seq", "par"}, {"scan"}) /\ Top(t).j < Top(t).right
    /\ threads' = [threads EXCEPT ![t].unwinding = TRUE]
    /\ UNCHANGED <<arr, input, SEQUENTIAL_THRESHOLD, MAX_DEPTH, joins, matvars, pthvars>>

Unwind_Cancelling(t) ==
    /\ threads[t].status = "running"
    /\ threads[t].unwinding
    /\ joins' = Joined(Top(t))
    /\ threads' = IF FutureDtorReady(Top(t))
                  THEN Popped(t, TRUE)
                  ELSE [Popped(t, TRUE) EXCEPT
                           ![Top(t).left_future].status = "done",
                           ![Top(t).left_future].exc = TRUE]
    /\ UNCHANGED <<arr, input, SEQUENTIAL_THRESHOLD, MAX_DEPTH, matvars, pthvars>>

\* Stack unwinding: the exception leaves the frame on top of the stack.  The
\* locals are destroyed, ~future() of left_future (lines 86, 96) among them.
Unwind(t) ==
    /\ threads[t].status = "running"
    /\ threads[t].unwinding
    /\ FutureDtorReady(Top(t))
    /\ joins' = Joined(Top(t))
    /\ threads' = Popped(t, TRUE)
    /\ UNCHANGED <<arr, input, SEQUENTIAL_THRESHOLD, MAX_DEPTH, matvars, pthvars>>

----------------------------------------------------------------------------
Next ==
    \/ \E t \in DOMAIN threads : SeqReturnBase(t)
    \/ \E t \in DOMAIN threads : SeqEnter(t)
    \/ \E t \in DOMAIN threads : ParDelegate(t)
    \/ \E t \in DOMAIN threads : ParEnter(t)
    \/ \E t \in DOMAIN threads : Median1(t)
    \/ \E t \in DOMAIN threads : Median2(t)
    \/ \E t \in DOMAIN threads : Median3(t)
    \/ \E t \in DOMAIN threads : Scan(t)
    \/ \E t \in DOMAIN threads : PlacePivot(t)
    \/ \E t \in DOMAIN threads : SeqRecurseLeft(t)
    \/ \E t \in DOMAIN threads : SeqRecurseRight(t)
    \/ \E t \in DOMAIN threads : Fork(t)
    \/ \E t \in DOMAIN threads : Inline(t)
    \/ \E t \in DOMAIN threads : Wait(t)
    \/ \E t \in DOMAIN threads : Return(t)
    \/ \E t \in DOMAIN threads : CompareThrows(t)
    \/ \E t \in DOMAIN threads : Unwind(t)

Spec == Init /\ [][Next]_vars

\* A step of thread t, whichever it is.
Step(t) ==
    \/ SeqReturnBase(t) \/ SeqEnter(t) \/ ParDelegate(t) \/ ParEnter(t)
    \/ Median1(t) \/ Median2(t) \/ Median3(t) \/ Scan(t) \/ PlacePivot(t)
    \/ SeqRecurseLeft(t) \/ SeqRecurseRight(t) \/ Fork(t) \/ Inline(t)
    \/ Wait(t) \/ Return(t) \/ CompareThrows(t) \/ Unwind(t)

\* The runs of Spec in which the threads are scheduled: as long as some thread
\* can take a step, a step is taken.  Comparisons may throw.
ScheduledSpec == Init /\ [][Next]_vars /\ WF_vars(Next)

\* The steps of a run in which every comparison returns: no operator< or
\* operator<= throws, so nothing unwinds.
ReturningNext ==
    \/ \E t \in DOMAIN threads : SeqReturnBase(t)
    \/ \E t \in DOMAIN threads : SeqEnter(t)
    \/ \E t \in DOMAIN threads : ParDelegate(t)
    \/ \E t \in DOMAIN threads : ParEnter(t)
    \/ \E t \in DOMAIN threads : Median1(t)
    \/ \E t \in DOMAIN threads : Median2(t)
    \/ \E t \in DOMAIN threads : Median3(t)
    \/ \E t \in DOMAIN threads : Scan(t)
    \/ \E t \in DOMAIN threads : PlacePivot(t)
    \/ \E t \in DOMAIN threads : SeqRecurseLeft(t)
    \/ \E t \in DOMAIN threads : SeqRecurseRight(t)
    \/ \E t \in DOMAIN threads : Fork(t)
    \/ \E t \in DOMAIN threads : Inline(t)
    \/ \E t \in DOMAIN threads : Wait(t)
    \/ \E t \in DOMAIN threads : Return(t)

\* The same runs under a scheduler that does not stop while some thread can
\* take a step: every std::async thread and the caller's thread are threads of
\* the operating system, which runs a runnable thread eventually.
FairSpec == Init /\ [][ReturningNext]_vars /\ WF_vars(ReturningNext)

----------------------------------------------------------------------------
\* main, lines 182-184: benchmark is called again once the previous call has
\* returned; it makes a new vector (line 123) and sorts a copy of it with
\* quicksort_parallel(vec_parallel, 0, vec_parallel.size() - 1) (line 142).
\* The threads of the previous call have ended and its futures are gone.
NextBenchmark(t) ==
    /\ t = Main
    /\ \A id \in DOMAIN threads : threads[id].status = "done"
    /\ \E n \in 0..MaxLen : \E v \in [0..(n - 1) -> Values] :
          /\ arr' = v
          /\ input' = v
          /\ threads' = (Main :> [stack |-> <<Frame("par", 0, Size(v) - 1, 0)>>,
                                  status |-> "running", unwinding |-> FALSE,
                                  exc |-> FALSE, log |-> <<>>])
    /\ joins' = <<>>
    /\ UNCHANGED <<SEQUENTIAL_THRESHOLD, MAX_DEPTH, matvars, pthvars>>

\* The runs of main: one top-level call after the other, every comparison
\* returning.
RepeatNext ==
    \/ \E t \in DOMAIN threads : SeqReturnBase(t)
    \/ \E t \in DOMAIN threads : SeqEnter(t)
    \/ \E t \in DOMAIN threads : ParDelegate(t)
    \/ \E t \in DOMAIN threads : ParEnter(t)
    \/ \E t \in DOMAIN threads : Median1(t)
    \/ \E t \in DOMAIN threads : Median2(t)
    \/ \E t \in DOMAIN threads : Median3(t)
    \/ \E t \in DOMAIN threads : Scan(t)
    \/ \E t \in DOMAIN threads : PlacePivot(t)
    \/ \E t \in DOMAIN threads : SeqRecurseLeft(t)
    \/ \E t \in DOMAIN threads : SeqRecurseRight(t)
    \/ \E t \in DOMAIN threads : Fork(t)
    \/ \E t \in DOMAIN threads : Inline(t)
    \/ \E t \in DOMAIN threads : Wait(t)
    \/ \E t \in DOMAIN threads : Return(t)
    \/ \E t \in DOMAIN threads : NextBenchmark(t)

RepeatSpec == Init /\ [][RepeatNext]_vars

----------------------------------------------------------------------------
\* quicksort_seq called on a whole vector (arr, 0, arr.size() - 1) whose
\* elements are all equal or strictly descending.

AllEqual(n, v) == [k \in 0..(n - 1) |-> v]

\* The elements of S from the largest to the smallest.
Descending(S) ==
    [k \in 0..(Cardinality(S) - 1) |->
        CHOOSE v \in S : Cardinality({u \in S : u > v}) = k]

ScenarioInit ==
    /\ arr \in {AllEqual(n, v) : n \in 0..MaxSeqLen, v \in 1..MaxSeqLen}
               \cup {Descending(S) : S \in SUBSET (1..MaxSeqLen)}
    /\ input = arr
    /\ SEQUENTIAL_THRESHOLD = 10000
    /\ MAX_DEPTH = 4
    /\ threads = (Main :> [stack |-> <<Frame("seq", 0, Size(arr) - 1, 0)>>,
                           status |-> "running", unwinding |-> FALSE,
                           exc |-> FALSE, log |-> <<>>])
    /\ joins = <<>>
    /\ NoMultiply
    /\ NoPthreads

ScenarioNext ==
    \/ \E t \in DOMAIN threads : SeqReturnBase(t)
    \/ \E t \in DOMAIN threads : SeqEnter(t)
    \/ \E t \in DOMAIN threads : Median1(t)
    \/ \E t \in DOMAIN threads : Median2(t)
    \/ \E t \in DOMAIN threads : Median3(t)
    \/ \E t \in DOMAIN threads : Scan(t)
    \/ \E t \in DOMAIN threads : PlacePivot(t)
    \/ \E t \in DOMAIN threads : SeqRecurseLeft(t)
    \/ \E t \in DOMAIN threads : SeqRecurseRight(t)
    \/ \E t \in DOMAIN threads : Return(t)
    \/ \E t \in DOMAIN threads : CompareThrows(t)
    \/ \E t \in DOMAIN threads : Unwind(t)

ScenarioSpec == ScenarioInit /\ [][ScenarioNext]_vars

----------------------------------------------------------------------------
\* matrix_multiplication.h.  An entry is a double there and an integer here:
\* the sums are exact, so two results are compared entry by entry.
\*
\* Every multiply function starts from a zero matrix C and adds products
\* A.data[a] * B.data[b] to entries C.data[c].  A function is modelled by the
\* iterations its loop nest executes: one record per execution of the
\* innermost statement, holding the loop indices and the three offsets a, b
\* and c.  The iterations of one parallel loop or of one group of tasks write
\* different entries of C, so their order does not show in the result.

\* Matrix(int r, int c), line 430
Matrix(r, c) == [rows |-> r, cols |-> c, data |-> [x \in 0..(r * c - 1) |-> 0]]

\* at(r, c), lines 432-434: the offset of entry (r, c) in data
Offset(M, r, c) == r * M.cols + c

Min(x, y) == IF x < y THEN x ELSE y

\* The values of a loop for (v = 0; v < n; v += step)
Steps(n, step) == {v \in 0..(n - 1) : v % step = 0}

RECURSIVE SumOf(_, _, _)
SumOf(its, A, B) ==
    IF its = {} THEN 0
    ELSE LET v == CHOOSE v \in its : TRUE
         IN  A.data[v.a] * B.data[v.b] + SumOf(its \ {v}, A, B)

\* The matrix C(A.rows, B.cols) after the iterations its have run.
Accumulated(its, A, B) ==
    [Matrix(A.rows, B.cols) EXCEPT
        !.data = [x \in DOMAIN @ |-> SumOf({v \in its : v.c = x}, A, B)]]

Returned(C) == [error |-> "none", C |-> C]

\* throw std::invalid_argument("Incompatible matrix dimensions")
Thrown == [error |-> "invalid_argument", C |-> NoMatrix]

Incompatible_Wider(A, B) == A.cols > B.rows

\* lines 439, 460, 481, 503, 615, 636 and 690
Incompatible(A, B) == A.cols # B.rows

\* lines 438-456
naive_matrix_multiply(A, B) ==
    IF Incompatible(A, B) THEN Thrown
    ELSE Returned(Accumulated(
        {[i |-> i, j |-> j, k |-> k,
          a |-> Offset(A, i, k), b |-> Offset(B, k, j),
          c |-> i * B.cols + j] :
            i \in 0..(A.rows - 1), j \in 0..(B.cols - 1),
            k \in 0..(A.cols - 1)}, A, B))

\* lines 459-477
loop_interchange_matrix_multiply(A, B) ==
    IF Incompatible(A, B) THEN Thrown
    ELSE Returned(Accumulated(
        {[i |-> i, k |-> k, j |-> j,
          a |-> Offset(A, i, k), b |-> Offset(B, k, j),
          c |-> i * B.cols + j] :
            i \in 0..(A.rows - 1), k \in 0..(A.cols - 1),
            j \in 0..(B.cols - 1)}, A, B))

\* lines 480-498: the loop over i is an OpenMP parallel for; an iteration
\* writes row i of C only
parallel_loop_matrix_multiply(A, B) ==
    IF Incompatible(A, B) THEN Thrown
    ELSE Returned(Accumulated(
        {[i |-> i, k |-> k, j |-> j,
          a |-> Offset(A, i, k), b |-> Offset(B, k, j),
          c |-> i * B.cols + j] :
            i \in 0..(A.rows - 1), k \in 0..(A.cols - 1),
            j \in 0..(B.cols - 1)}, A, B))

\* lines 511-527: the iterations of the tiled loop nest
TiledIterations(A, B, tile_size) ==
    {v \in [i0 : Steps(A.rows, tile_size), j0 : Steps(B.cols, tile_size),
            k0 : Steps(A.cols, tile_size), i : 0..(A.rows - 1),
            k : 0..(A.cols - 1), j : 0..(B.cols - 1)] :
        /\ v.i0 <= v.i /\ v.i < Min(v.i0 + tile_size, A.rows)
        /\ v.k0 <= v.k /\ v.k < Min(v.k0 + tile_size, A.cols)
        /\ v.j0 <= v.j /\ v.j < Min(v.j0 + tile_size, B.cols)}

\* lines 501-530
tiled_matrix_multiply(A, B, tile_size) ==
    IF Incompatible(A, B) THEN Thrown
    ELSE Returned(Accumulated(
        {[i0 |-> v.i0, j0 |-> v.j0, k0 |-> v.k0, i |-> v.i, k |-> v.k, j |-> v.j,
          a |-> Offset(A, v.i, v.k), b |-> Offset(B, v.k, v.j),
          c |-> v.i * B.cols + v.j] : v \in TiledIterations(A, B, tile_size)},
        A, B))

\* int threshold = 128, line 536
RecursionThreshold == 128

\* lines 533-612: the iterations of matrix_mult_recursive on the blocks that
\* start at offsets A, B and C of the three data arrays.  path tells the
\* recursive calls apart.  The four tasks before each taskwait write
\* different quadrants of C.
RECURSIVE matrix_mult_recursive(_, _, _, _, _, _, _, _, _, _, _)
matrix_mult_recursive(A, B, C, A_rows, A_cols, B_cols, lda, ldb, ldc, threshold, path) ==
    LET m == A_rows
        n == B_cols
        k == A_cols
    IN
    IF m <= threshold \/ n <= threshold \/ k <= threshold
    THEN {[path |-> path, i |-> i, kk |-> kk, j |-> j,
           a |-> A + i * lda + kk, b |-> B + kk * ldb + j,
           c |-> C + i * ldc + j] :
             i \in 0..(m - 1), kk \in 0..(k - 1), j \in 0..(n - 1)}
    ELSE LET m2 == m \div 2
             n2 == n \div 2
             k2 == k \div 2
             A11 == A
             A12 == A + k2
             A21 == A + m2 * lda
             A22 == A + m2 * lda + k2
             B11 == B
             B12 == B + n2
             B21 == B + k2 * ldb
             B22 == B + k2 * ldb + n2
             C11 == C
             C12 == C + n2
             C21 == C + m2 * ldc
             C22 == C + m2 * ldc + n2
         IN  matrix_mult_recursive(A11, B11, C11, m2, k2, n2,
                                   lda, ldb, ldc, threshold, Append(path, 1))
             \cup matrix_mult_recursive(A11, B12, C12, m2, k2, n - n2,
                                   lda, ldb, ldc, threshold, Append(path, 2))
             \cup matrix_mult_recursive(A21, B11, C21, m - m2, k2, n2,
                                   lda, ldb, ldc, threshold, Append(path, 3))
             \cup matrix_mult_recursive(A21, B12, C22, m - m2, k2, n - n2,
                                   lda, ldb, ldc, threshold, Append(path, 4))
             \cup matrix_mult_recursive(A12, B21, C11, m2, k - k2, n2,
                                   lda, ldb, ldc, threshold, Append(path, 5))
             \cup matrix_mult_recursive(A12, B22, C12, m2, k - k2, n - n2,
                                   lda, ldb, ldc, threshold, Append(path, 6))
             \cup matrix_mult_recursive(A22, B21, C21, m - m2, k - k2, n2,
                                   lda, ldb, ldc, threshold, Append(path, 7))
             \cup matrix_mult_recursive(A22, B22, C22, m - m2, k - k2, n - n2,
                                   lda, ldb, ldc, threshold, Append(path, 8))

\* lines 614-632
divide_conquer_matrix_multiply(A, B) ==
    IF Incompatible(A, B) THEN Thrown
    ELSE Returned(Accumulated(
        matrix_mult_recursive(0, 0, 0, A.rows, A.cols, B.cols,
                              A.cols, B.cols, B.cols, RecursionThreshold, <<>>),
        A, B))

\* j += 4 and j + 3, lines 648, 657 and 674: four doubles in a __m256d
VectorWidth == 4

\* lines 647-683: the iterations of the AVX2 loop nest.  For a block of four
\* columns that fits (j + 3 < B.cols) every l adds to the four lanes of sum,
\* which line 674 stores.  For the last, shorter block the first iteration of
\* the loop over l adds its products to C and leaves the loop (break, line 669).
Avx2Iterations(A, B) ==
    {v \in [i : 0..(A.rows - 1), j : Steps(B.cols, VectorWidth),
            l : 0..(A.cols - 1), jj : 0..(B.cols - 1)] :
        IF v.j + 3 < B.cols
        THEN v.jj \in v.j..(v.j + 3)
        ELSE v.l = 0 /\ v.jj \in v.j..(B.cols - 1)}

\* lines 635-686
avx2_matrix_multiply(A, B) ==
    IF Incompatible(A, B) THEN Thrown
    ELSE Returned(Accumulated(
        {[i |-> v.i, j |-> v.j, l |-> v.l, jj |-> v.jj,
          a |-> Offset(A, v.i, v.l), b |-> Offset(B, v.l, v.jj),
          c |-> v.i * B.cols + v.jj] : v \in Avx2Iterations(A, B)},
        A, B))

\* const int tile_size = 32, line 695
OptimizedTileSize == 32

\* int tile_size = 32, line 502
DefaultTileSize == 32

\* lines 704-739: the iterations of the tiled and vectorized loop nest.  In a
\* tile the vector loop (lines 714-725) starts at j0 and takes four columns
\* at a time while j < min(j0 + tile_size, B.cols) - 3: lane is the column's
\* place among the four.  The remainder loop (lines 729-734) runs from
\* j_aligned_end to the end of the tile: lane is -1.
OptimizedIterations(A, B) ==
    LET tile_size == OptimizedTileSize
        j_end(j0) == Min(j0 + tile_size, B.cols)
        j_aligned_end(j0) == (j_end(j0) \div 4) * 4
    IN
    {v \in [i0 : Steps(A.rows, tile_size), j0 : Steps(B.cols, tile_size),
            k0 : Steps(A.cols, tile_size), i : 0..(A.rows - 1),
            k1 : 0..(A.cols - 1), j : 0..(B.cols - 1), lane : -1..3] :
        /\ v.i0 <= v.i /\ v.i < Min(v.i0 + tile_size, A.rows)
        /\ v.k0 <= v.k1 /\ v.k1 < Min(v.k0 + tile_size, A.cols)
        /\ IF v.lane >= 0
           THEN /\ v.j0 <= v.j
                /\ (v.j - v.j0) % 4 = 0
                /\ v.j < j_end(v.j0) - 3
           ELSE /\ j_aligned_end(v.j0) <= v.j
                /\ v.j < j_end(v.j0)}

\* lines 689-742
optimized_matrix_multiply(A, B) ==
    IF Incompatible(A, B) THEN Thrown
    ELSE Returned(Accumulated(
        {[i0 |-> v.i0, j0 |-> v.j0, k0 |-> v.k0, i |-> v.i, k1 |-> v.k1,
          j |-> v.j, lane |-> v.lane,
          a |-> Offset(A, v.i, v.k1),
          b |-> Offset(B, v.k1, IF v.lane >= 0 THEN v.j + v.lane ELSE v.j),
          c |-> v.i * B.cols + (IF v.lane >= 0 THEN v.j + v.lane ELSE v.j)] :
            v \in OptimizedIterations(A, B)},
        A, B))

----------------------------------------------------------------------------
\* A call of one multiply function on two matrices (as the tests of
\* matrix_multiplication.h make it).

\* The matrices of r rows and c columns with at most MaxNonzero entries 1 and
\* the others 0.
Matrices(r, c) ==
    {[rows |-> r, cols |-> c,
      data |-> [x \in 0..(r * c - 1) |-> IF x \in S THEN 1 ELSE 0]] :
        S \in {T \in SUBSET (0..(r * c - 1)) : Cardinality(T) <= MaxNonzero}}

MatrixInit ==
    /\ \E r \in 1..MaxDim, c \in 1..MaxDim : argA \in Matrices(r, c)
    /\ \E r \in 1..MaxDim, c \in 1..MaxCols : argB \in Matrices(r, c)
    /\ call = "none"
    /\ error = "none"
    /\ result = NoMatrix
    /\ arr = <<>>
    /\ input = <<>>
    /\ SEQUENTIAL_THRESHOLD = 10000
    /\ MAX_DEPTH = 4
    /\ threads = <<>>
    /\ joins = <<>>
    /\ NoPthreads

\* The call of function name ends as r says: it throws, or it returns r.C.
\* A and B are passed by const reference.
Called(name, r) ==
    /\ call = "none"
    /\ call' = name
    /\ error' = r.error
    /\ result' = r.C
    /\ UNCHANGED <<argA, argB, sortvars, pthvars>>

CallNaive == Called("naive", naive_matrix_multiply(argA, argB))

CallLoopInterchange ==
    Called("loop_interchange", loop_interchange_matrix_multiply(argA, argB))

CallParallelLoop ==
    Called("parallel_loop", parallel_loop_matrix_multiply(argA, argB))

CallTiled ==
    \E tile_size \in {DefaultTileSize} \cup 1..MaxTile :
        Called("tiled", tiled_matrix_multiply(argA, argB, tile_size))

CallDivideConquer ==
    Called("divide_conquer", divide_conquer_matrix_multiply(argA, argB))

CallAvx2 == Called("avx2", avx2_matrix_multiply(argA, argB))

CallOptimized == Called("optimized", optimized_matrix_multiply(argA, argB))

MatrixNext ==
    \/ CallNaive
    \/ CallLoopInterchange
    \/ CallParallelLoop
    \/ CallTiled
    \/ CallDivideConquer
    \/ CallAvx2
    \/ CallOptimized

MatrixSpec == MatrixInit /\ [][MatrixNext]_vars

----------------------------------------------------------------------------
\* matrix_mul.c: main and the threads running parallel_matrix_mul.

DefaultThreads == 8

FallbackThreads == 4

\* lines 77-86: the thread count main works with
NumThreads(c, v) ==
    IF c > 1 THEN (IF v <= 0 THEN FallbackThreads ELSE v) ELSE DefaultThreads

\* line 112
RowsPerThread(size, n) == size \div n

\* line 117
StartRow(i, rpt) == i * rpt

EndRow_NoRemainder(i, n, rpt, size) == (i + 1) * rpt

\* lines 118-119
EndRow(i, n, rpt, size) == IF i = n - 1 THEN size ELSE (i + 1) * rpt

\* The elements of a matrix.
Elements(size) == (0..(size - 1)) \X (0..(size - 1))

\* main is entered: the matrices are globals (lines 10-13), nothing is created.
PthreadInit ==
    /\ MATRIX_SIZE \in 1..MaxMatrixSize
    /\ argc \in 1..2
    /\ argv1 \in IF argc = 1 THEN {0} ELSE (-1)..MaxThreadArg
    /\ num_threads = DefaultThreads
    /\ rows_per_thread = 0
    /\ thread_args = <<>>
    /\ workers = <<>>
    /\ mainpc = "args"
    /\ loop_i = 0
    /\ writers = [e \in Elements(MATRIX_SIZE) |-> {}]
    /\ verified = FALSE
    /\ arr = <<>>
    /\ input = <<>>
    /\ SEQUENTIAL_THRESHOLD = 10000
    /\ MAX_DEPTH = 4
    /\ threads = <<>>
    /\ joins = <<>>
    /\ NoMultiply

\* lines 80-86
ParseArgs ==
    /\ mainpc = "args"
    /\ num_threads' = NumThreads(argc, argv1)
    /\ mainpc' = "setup"
    /\ UNCHANGED <<MATRIX_SIZE, argc, argv1, rows_per_thread, thread_args,
                   workers, loop_i, writers, verified, sortvars, matvars>>

\* lines 88-116: initialize_matrices and sequential_matrix_mul do not touch
\* the state of the threads; rows_per_thread = MATRIX_SIZE / num_threads
Prepare ==
    /\ mainpc = "setup"
    /\ rows_per_thread' = RowsPerThread(MATRIX_SIZE, num_threads)
    /\ loop_i' = 0
    /\ mainpc' = "create"
    /\ UNCHANGED <<MATRIX_SIZE, argc, argv1, num_threads, thread_args,
                   workers, writers, verified, sortvars, matvars>>

\* lines 116-122: one iteration of the loop that creates the threads
Create ==
    /\ mainpc = "create"
    /\ loop_i < num_threads
    /\ thread_args' = thread_args @@
          (loop_i :> [start_row |-> StartRow(loop_i, rows_per_thread),
                      end_row |-> EndRow(loop_i, num_threads, rows_per_thread,
                                         MATRIX_SIZE)])
    /\ workers' = workers @@
          (loop_i :> [pc |-> "begin", start_row |-> 0, end_row |-> 0,
                      i |-> 0, j |-> 0, joined |-> FALSE])
    /\ loop_i' = loop_i + 1
    /\ UNCHANGED <<MATRIX_SIZE, argc, argv1, num_threads, rows_per_thread,
                   mainpc, writers, verified, sortvars, matvars>>

\* lines 116, 124: the creating loop ends
CreateDone ==
    /\ mainpc = "create"
    /\ ~(loop_i < num_threads)
    /\ loop_i' = 0
    /\ mainpc' = "join"
    /\ UNCHANGED <<MATRIX_SIZE, argc, argv1, num_threads, rows_per_thread,
                   thread_args, workers, writers, verified, sortvars, matvars>>

\* lines 124-126: pthread_join returns when the thread has ended
Join ==
    /\ mainpc = "join"
    /\ loop_i < num_threads
    /\ workers[loop_i].pc = "exited"
    /\ workers' = [workers EXCEPT ![loop_i].joined = TRUE]
    /\ loop_i' = loop_i + 1
    /\ UNCHANGED <<MATRIX_SIZE, argc, argv1, num_threads, rows_per_thread,
                   thread_args, mainpc, writers, verified, sortvars, matvars>>

\* lines 124, 128-134: the joining loop ends
JoinDone ==
    /\ mainpc = "join"
    /\ ~(loop_i < num_threads)
    /\ mainpc' = "verify"
    /\ UNCHANGED <<MATRIX_SIZE, argc, argv1, num_threads, rows_per_thread,
                   thread_args, workers, loop_i, writers, verified, sortvars,
                   matvars>>

\* lines 135-142: verify_results compares matrixC_parallel with the product
\* computed by sequential_matrix_mul; an element no thread has computed is
\* still 0.0
Verify ==
    /\ mainpc = "verify"
    /\ verified' = \A e \in Elements(MATRIX_SIZE) : writers[e] # {}
    /\ mainpc' = "done"
    /\ UNCHANGED <<MATRIX_SIZE, argc, argv1, num_threads, rows_per_thread,
                   thread_args, workers, loop_i, writers, sortvars, matvars>>

\* parallel_matrix_mul, lines 47-51: the thread reads its ThreadArgs
ThreadBegin(w) ==
    /\ workers[w].pc = "begin"
    /\ workers' = [workers EXCEPT ![w].pc = "run",
                                  ![w].start_row = thread_args[w].start_row,
                                  ![w].end_row = thread_args[w].end_row,
                                  ![w].i = thread_args[w].start_row,
                                  ![w].j = 0]
    /\ UNCHANGED <<MATRIX_SIZE, argc, argv1, num_threads, rows_per_thread,
                   thread_args, mainpc, loop_i, writers, verified, sortvars,
                   matvars>>

\* lines 51-57: matrixC_parallel[i][j] is computed, then j++, and i++ at the
\* end of the row
ComputeElement(w) ==
    /\ workers[w].pc = "run"
    /\ workers[w].i < workers[w].end_row
    /\ writers' = [writers EXCEPT ![<<workers[w].i, workers[w].j>>] = @ \cup {w}]
    /\ workers' = IF workers[w].j + 1 < MATRIX_SIZE
                  THEN [workers EXCEPT ![w].j = @ + 1]
                  ELSE [workers EXCEPT ![w].i = @ + 1, ![w].j = 0]
    /\ UNCHANGED <<MATRIX_SIZE, argc, argv1, num_threads, rows_per_thread,
                   thread_args, mainpc, loop_i, verified, sortvars, matvars>>

\* lines 51, 60: the loop ends, pthread_exit
ThreadExit(w) ==
    /\ workers[w].pc = "run"
    /\ ~(workers[w].i < workers[w].end_row)
    /\ workers' = [workers EXCEPT ![w].pc = "exited"]
    /\ UNCHANGED <<MATRIX_SIZE, argc, argv1, num_threads, rows_per_thread,
                   thread_args, mainpc, loop_i, writers, verified, sortvars,
                   matvars>>

PthreadNext ==
    \/ ParseArgs
    \/ Prepare
    \/ Create
    \/ CreateDone
    \/ Join
    \/ JoinDone
    \/ Verify
    \/ \E w \in DOMAIN workers : ThreadBegin(w)
    \/ \E w \in DOMAIN workers : ComputeElement(w)
    \/ \E w \in DOMAIN workers : ThreadExit(w)

PthreadSpec == PthreadInit /\ [][PthreadNext]_vars

----------------------------------------------------------------------------
\* quicksort_seq as a function of the vector: the vector it leaves and the
\* comparisons and swaps it performs, in order.

RECURSIVE PartitionLoop(_, _, _, _, _, _)
PartitionLoop(a, i, j, right, pivot, log) ==
    IF j < right
    THEN IF a[j] <= pivot
         THEN PartitionLoop(Swap(a, i + 1, j), i + 1, j + 1, right, pivot,
                            log \o <<Cmp(j, right), Swp(i + 1, j)>>)
         ELSE PartitionLoop(a, i, j + 1, right, pivot, log \o <<Cmp(j, right)>>)
    ELSE [a |-> Swap(a, i + 1, right), i |-> i + 1,
          log |-> Append(log, Swp(i + 1, right))]

RECURSIVE quicksort_seq(_, _, _)
quicksort_seq(a, left, right) ==
    IF left >= right
    THEN [a |-> a, log |-> <<>>]
    ELSE LET mid == left + (right - left) \div 2
             s1  == a[mid] < a[left]
             a1  == IF s1 THEN Swap(a, left, mid) ELSE a
             s2  == a1[right] < a1[left]
             a2  == IF s2 THEN Swap(a1, left, right) ELSE a1
             s3  == a2[mid] < a2[right]
             a3  == IF s3 THEN Swap(a2, mid, right) ELSE a2
             l3  == <<Cmp(mid, left)>> \o (IF s1 THEN <<Swp(mid, left)>> ELSE <<>>)
                    \o <<Cmp(right, left)>> \o (IF s2 THEN <<Swp(right, left)>> ELSE <<>>)
                    \o <<Cmp(mid, right)>> \o (IF s3 THEN <<Swp(mid, right)>> ELSE <<>>)
             p   == PartitionLoop(a3, left - 1, left, right, a3[right], l3)
             L   == quicksort_seq(p.a, left, p.i - 1)
             R   == quicksort_seq(L.a, p.i + 1, right)
         IN  [a |-> R.a, log |-> p.log \o L.log \o R.log]

----------------------------------------------------------------------------
\* Vocabulary of the properties

Tasks == DOMAIN threads \ {Main}

Done(t) == threads[t].status = "done"

LiveTasks == {id \in Tasks : ~Done(id)}

TopLevelReturned == Done(Main) /\ ~threads[Main].exc

TopLevelFailed == Done(Main) /\ threads[Main].exc

Sorted(a, left, right) == \A k \in left..(right - 1) : a[k] <= a[k + 1]

Count(a, v) == Cardinality({k \in DOMAIN a : a[k] = v})

IsPermutation(a, b) ==
    /\ DOMAIN a = DOMAIN b
    /\ \A v \in Values : Count(a, v) = Count(b, v)

IsPrefix(s, u) == Len(s) <= Len(u) /\ SubSeq(u, 1, Len(s)) = s

Frames == UNION {{<<t, k>> : k \in 1..Len(Stack(t))} : t \in DOMAIN threads}

FrameAt(p) == Stack(p[1])[p[2]]

\* The frame that forked task id: position Last(id) of the stack of the
\* thread that id extends.
Creator(id) == <<SubSeq(id, 1, Len(id) - 1), id[Len(id)]>>

HeldByCreator(id) ==
    /\ Creator(id) \in Frames
    /\ FrameAt(Creator(id)).left_future = id

Range(f) == f.left..f.right

\* The indices the next step of thread t reads or writes.
Accesses(t) ==
    LET f == Top(t) IN
    IF ~Running(t) THEN {}
    ELSE IF f.pc = "med1" THEN {f.mid, f.left}
    ELSE IF f.pc = "med2" THEN {f.right, f.left}
    ELSE IF f.pc = "med3" THEN {f.mid, f.right}
    ELSE IF f.pc = "scan" /\ f.j < f.right THEN {f.j, f.i + 1}
    ELSE IF f.pc = "scan" THEN {f.i + 1, f.right}
    ELSE {}

\* The indices a frame has yet to work on, itself or through the calls it
\* has yet to make on its own thread.
Pending(f) ==
    IF f.pc \in {"entry", "med1", "med2", "med3", "scan"} THEN Range(f)
    ELSE IF f.pc \in {"recL", "fork"}
         THEN (f.left..(f.i - 1)) \cup ((f.i + 1)..f.right)
    ELSE IF f.pc \in {"recR", "inline"} THEN (f.i + 1)..f.right
    ELSE {}

\* The indices thread t may still touch: those pending in the frames of its
\* stack (a thread that is done or unwinding touches none).
Footprint(t) ==
    IF Running(t)
    THEN UNION {Pending(Stack(t)[k]) : k \in 1..Len(Stack(t))}
    ELSE {}

----------------------------------------------------------------------------
\* C1: when the top-level call quicksort_parallel(arr, 0, n - 1) returns, arr
\* is non-decreasing and is a permutation of the input.
C1_ReturnsSortedPermutation ==
    TopLevelReturned =>
        /\ Sorted(arr, 0, Size(arr) - 1)
        /\ IsPermutation(arr, input)

\* C2: threads that run at the same time work on disjoint index ranges: the
\* indices two different threads may still touch never overlap, every access
\* of a thread lies inside the range of the frame it is executing, and so no
\* index is accessed by two threads at once.
C2_ConcurrentFramesDisjoint ==
    /\ \A t \in DOMAIN threads :
          Running(t) => Accesses(t) \subseteq (Range(Top(t)) \cap DOMAIN arr)
    /\ \A t1, t2 \in DOMAIN threads :
          t1 # t2 =>
              /\ Footprint(t1) \cap Footprint(t2) = {}
              /\ Accesses(t1) \cap Accesses(t2) = {}

C2_Witness ==
    \E t1, t2 \in DOMAIN threads :
        /\ t1 # t2
        /\ Accesses(t1) # {}
        /\ Accesses(t2) # {}

\* C3: every task is joined exactly once, by the frame that forked it and
\* before that frame is left, whether by return or by an exception; when the
\* top-level call has finished every task is done and joined.
C3_TasksJoinedOnce ==
    /\ \A id \in Tasks :
          /\ joins[id] <= 1
          /\ joins[id] = 1 => Done(id)
          /\ joins[id] = 0 => HeldByCreator(id)
    /\ Done(Main) => \A id \in Tasks : Done(id) /\ joins[id] = 1

C3_Witness ==
    \E id \in Tasks :
        /\ joins[id] = 1
        /\ threads[Creator(id)[1]].unwinding
        /\ ~HeldByCreator(id)

\* C4: a frame that forked returns only after its task and its inline branch
\* have completed, and the range of a frame that returns is sorted.
C4_ReturningFrameSorted ==
    \A p \in Frames :
        (/\ FrameAt(p).fn = "par"
         /\ FrameAt(p).pc = "ret"
         /\ FrameAt(p).left_future # NoFuture
         /\ ~threads[p[1]].unwinding)
        => /\ Done(FrameAt(p).left_future)
           /\ Sorted(arr, FrameAt(p).left, FrameAt(p).right)

\* C5: the tasks created by one top-level call, and so the tasks live at any
\* instant, number at most 2^MAX_DEPTH - 1.
C5_TaskBound ==
    /\ Cardinality(Tasks) <= 2 ^ MAX_DEPTH - 1
    /\ Cardinality(LiveTasks) <= 2 ^ MAX_DEPTH - 1

C5_Witness ==
    /\ MAX_DEPTH = 2
    /\ Cardinality(LiveTasks) = 2 ^ MAX_DEPTH - 1

\* C6: an exception thrown by a comparison inside a task reaches the caller
\* of the top-level call: the call does not return normally.
C6_TaskFailureReachesCaller ==
    (Done(Main) /\ \E id \in Tasks : threads[id].exc) => threads[Main].exc

\* C7: an exception leaves a frame that forked only after the forked task has
\* finished; when the caller of the top-level call sees the exception no task
\* is running.
C7_NoTaskOutlivesFailure ==
    /\ \A id \in Tasks : ~Done(id) => HeldByCreator(id)
    /\ TopLevelFailed => LiveTasks = {}

C7_Witness ==
    /\ TopLevelFailed
    /\ \E id \in Tasks : ~threads[id].exc

\* A frame of quicksort_parallel that has taken the decision of line 55 and
\* has handed its whole range to quicksort_seq.
Delegated(f) == f.fn = "par" /\ f.pc = "ret" /\ f.left_future = NoFuture

Decided(f) == f.fn = "par" /\ f.pc # "entry"

\* C8 as stated: a frame of quicksort_parallel delegates to quicksort_seq
\* exactly when its range holds at most SEQUENTIAL_THRESHOLD elements or its
\* depth is at least MAX_DEPTH.
C8_DelegatesByElementCount ==
    \A p \in Frames :
        Decided(FrameAt(p)) =>
            (Delegated(FrameAt(p)) <=>
                \/ FrameAt(p).right - FrameAt(p).left + 1 <= SEQUENTIAL_THRESHOLD
                \/ FrameAt(p).depth >= MAX_DEPTH)

\* C8 amended: a frame of quicksort_parallel delegates to quicksort_seq,
\* creating no task, exactly when right - left <= SEQUENTIAL_THRESHOLD (its
\* range holds at most SEQUENTIAL_THRESHOLD + 1 elements) or its depth is at
\* least MAX_DEPTH, and otherwise partitions and forks; every frame above a
\* frame of quicksort_seq on a stack is a frame of quicksort_seq, and no frame
\* of quicksort_seq holds a task.
C8_DelegatesByIndexDistance ==
    /\ \A p \in Frames :
          Decided(FrameAt(p)) =>
              (Delegated(FrameAt(p)) <=>
                  \/ FrameAt(p).right - FrameAt(p).left <= SEQUENTIAL_THRESHOLD
                  \/ FrameAt(p).depth >= MAX_DEPTH)
    /\ \A p \in Frames :
          FrameAt(p).fn = "seq" =>
              /\ FrameAt(p).left_future = NoFuture
              /\ \A k \in p[2]..Len(Stack(p[1])) : Stack(p[1])[k].fn = "seq"

C8_Witness ==
    \E p \in Frames :
        /\ Delegated(FrameAt(p))
        /\ FrameAt(p).right - FrameAt(p).left = SEQUENTIAL_THRESHOLD
        /\ FrameAt(p).left <= FrameAt(p).right
        /\ FrameAt(p).depth < MAX_DEPTH
        /\ p[1] # Main

\* C9: for an input of at most SEQUENTIAL_THRESHOLD elements, and for every
\* input when MAX_DEPTH = 0, quicksort_parallel forks nothing, performs the
\* comparisons and swaps of quicksort_seq on that input in the same order,
\* and ends with the same vector.
C9_NeverForkingIsSequential ==
    (Size(input) <= SEQUENTIAL_THRESHOLD \/ MAX_DEPTH = 0) =>
        LET seq == quicksort_seq(input, 0, Size(input) - 1) IN
        /\ Tasks = {}
        /\ IsPrefix(threads[Main].log, seq.log)
        /\ TopLevelReturned => arr = seq.a /\ threads[Main].log = seq.log

C9_Witness ==
    /\ TopLevelReturned
    /\ MAX_DEPTH = 0
    /\ Size(input) > SEQUENTIAL_THRESHOLD + 1
    /\ arr # input

\* C10: a frame of quicksort_seq or quicksort_parallel whose range is empty
\* (left > right) or holds one element (left = right) only enters and
\* returns: it never reaches pivot selection or a fork, and none of its steps
\* changes an element of arr, creates a task or raises an exception.
C10_DegenerateRangeIsNoOp ==
    /\ [](\A p \in Frames :
             FrameAt(p).left >= FrameAt(p).right =>
                 /\ FrameAt(p).pc \in {"entry", "ret"}
                 /\ FrameAt(p).left_future = NoFuture)
    /\ [][\A t \in DOMAIN threads :
             (/\ Running(t)
              /\ Top(t).left >= Top(t).right
              /\ threads'[t] # threads[t])
             => /\ arr' = arr
                /\ DOMAIN threads' = DOMAIN threads
                /\ ~threads'[t].unwinding]_vars

C10_Witness ==
    \E t \in Tasks :
        /\ Done(t)
        /\ ~threads[t].exc
        /\ \E p \in Frames :
              /\ FrameAt(p).left_future = t
              /\ FrameAt(p).i = FrameAt(p).left

\* The number of elements of the range of frame f.
RangeSize(f) == IF f.right >= f.left THEN f.right - f.left + 1 ELSE 0

\* The frame whose call or fork created frame p: the frame below it on its
\* stack, or for the first frame of a task the frame that forked the task.
HasCaller(p) == p[2] > 1 \/ p[1] # Main

CallerOf(p) == IF p[2] > 1 THEN <<p[1], p[2] - 1>> ELSE Creator(p[1])

AllFinished ==
    /\ TopLevelReturned
    /\ \A id \in Tasks : Done(id) /\ ~threads[id].exc /\ joins[id] = 1

\* C11: when every comparison returns, under a fair scheduler every top-level
\* call terminates: the range of a recursive call (a call of quicksort_seq by
\* quicksort_seq, or of quicksort_parallel by quicksort_parallel, inline or as
\* a task) is strictly smaller than its caller's, a frame that waits for its
\* task is eventually released, and in the end the top-level call has returned
\* and every task has completed and has been joined: no run stops earlier
\* with its threads blocked.
C11_TerminatesWhenComparisonsReturn ==
    /\ [](\A p \in Frames :
             HasCaller(p) =>
                 /\ CallerOf(p) \in Frames
                 /\ IF FrameAt(CallerOf(p)).fn = FrameAt(p).fn
                    THEN RangeSize(FrameAt(p)) < RangeSize(FrameAt(CallerOf(p)))
                    ELSE /\ FrameAt(CallerOf(p)).fn = "par"
                         /\ Range(FrameAt(p)) = Range(FrameAt(CallerOf(p))))
    /\ <>[]AllFinished

C11_Witness ==
    /\ AllFinished
    /\ Cardinality(Tasks) = 3
    /\ arr # input

\* C12: right after the partition of [left, right] has put the pivot at index
\* i, in quicksort_seq (before line 42) and in quicksort_parallel (before line
\* 86) alike: left <= i <= right, arr[i] is the pivot value, every element of
\* [left, i - 1] is <= the pivot and every element of [i + 1, right] is >= it.
C12_PartitionPostcondition ==
    \A t \in DOMAIN threads :
        AtPc(t, {"seq", "par"}, {"recL", "fork"}) =>
            LET f == Top(t) IN
            /\ f.left <= f.i
            /\ f.i <= f.right
            /\ arr[f.i] = f.pivot
            /\ \A k \in f.left..(f.i - 1) : arr[k] <= f.pivot
            /\ \A k \in (f.i + 1)..f.right : arr[k] >= f.pivot

C12_Witness ==
    \E t \in Tasks :
        /\ AtPc(t, {"par"}, {"fork"})
        /\ Top(t).left < Top(t).i
        /\ Top(t).i < Top(t).right
        /\ arr[Top(t).left] < Top(t).pivot
        /\ arr[Top(t).right] > Top(t).pivot

\* C13: the parallel sort applied to a vector that is already non-decreasing
\* returns with every element where it was (so sorting the result of a sort
\* changes nothing).
C13_SortedInputUnchanged ==
    (Sorted(input, 0, Size(input) - 1) /\ TopLevelReturned) => arr = input

\* The recursive calls of quicksort_seq open at once on thread t: the frames
\* of its stack above the first.
Nesting(t) == Len(Stack(t)) - 1

IsAllEqual(a) == \A k, l \in DOMAIN a : a[k] = a[l]

IsStrictlyDescending(a) ==
    \A k \in DOMAIN a : (k + 1) \in DOMAIN a => a[k] > a[k + 1]

IsStrictlyAscending(a) ==
    \A k \in DOMAIN a : (k + 1) \in DOMAIN a => a[k] < a[k + 1]

\* C14: on a vector of n equal elements quicksort_seq returns with the vector
\* unchanged, and from n = 3 on its recursive calls never nest n - 1 deep
\* (the depth of a sort that takes one element off the range per call).
C14_AllEqualNestingBelowLinear ==
    IsAllEqual(input) =>
        /\ TopLevelReturned => arr = input
        /\ Size(input) >= 3 => Nesting(Main) < Size(input) - 1

\* C15: on a strictly descending vector of n elements quicksort_seq returns
\* with the same elements strictly ascending, and from n = 3 on its recursive
\* calls never nest n - 1 deep.
C15_DescendingSortedNestingBelowLinear ==
    IsStrictlyDescending(input) =>
        /\ TopLevelReturned =>
              /\ IsStrictlyAscending(arr)
              /\ DOMAIN arr = DOMAIN input
              /\ {arr[k] : k \in DOMAIN arr} = {input[k] : k \in DOMAIN input}
        /\ Size(input) >= 3 => Nesting(Main) < Size(input) - 1

C15_Witness ==
    /\ IsStrictlyDescending(input)
    /\ Size(input) = MaxSeqLen
    /\ TopLevelReturned

\* C16: the sort changes arr only by exchanging two of its elements: in every
\* reachable state, whatever the interleaving of the threads, arr has the
\* length of the input and is a permutation of it, and every step leaves arr
\* as it is or exchanges the elements at two indices.
C16_OnlySwapsInPlace ==
    /\ [](Size(arr) = Size(input) /\ IsPermutation(arr, input))
    /\ [][\/ arr' = arr
          \/ \E x, y \in DOMAIN arr :
                arr' = [arr EXCEPT ![x] = arr[y], ![y] = arr[x]]]_vars

C16_Witness ==
    /\ arr # input
    /\ ~Sorted(arr, 0, Size(arr) - 1)
    /\ Accesses(Main) # {}
    /\ \E t \in LiveTasks : Accesses(t) # {}

\* The first pivot selection of a run has just ended: it worked on the whole
\* vector, in quicksort_parallel or in the quicksort_seq it delegated to, so
\* the values before the selection are those of input and the log of the
\* caller's thread holds the operations of the selection and nothing else.
AfterFirstSelection ==
    /\ Running(Main)
    /\ Tasks = {}
    /\ Top(Main).left = 0
    /\ Top(Main).right = Size(arr) - 1
    /\ Top(Main).pc = "scan"
    /\ Top(Main).j = Top(Main).left

Min3(x, y, z) == CHOOSE v \in {x, y, z} : \A w \in {x, y, z} : v <= w

Max3(x, y, z) == CHOOSE v \in {x, y, z} : \A w \in {x, y, z} : v >= w

Med3(x, y, z) == x + y + z - Min3(x, y, z) - Max3(x, y, z)

OpCount(log, kind) == Cardinality({k \in 1..Len(log) : log[k][1] = kind})

\* What holds after every pivot selection: mid is left + (right - left) / 2,
\* the pivot is the element at right, only left, mid and right can have
\* changed, and 3 comparisons and at most 3 swaps were made.
SelectionFootprint(f) ==
    /\ f.mid = f.left + (f.right - f.left) \div 2
    /\ f.pivot = arr[f.right]
    /\ \A k \in DOMAIN arr \ {f.left, f.mid, f.right} : arr[k] = input[k]
    /\ OpCount(threads[Main].log, "cmp") = 3
    /\ OpCount(threads[Main].log, "swap") <= 3

MedianOrder(f) ==
    /\ arr[f.right] = Med3(input[f.left], input[f.mid], input[f.right])
    /\ arr[f.left] = Min3(input[f.left], input[f.mid], input[f.right])
    /\ arr[f.mid] = Max3(input[f.left], input[f.mid], input[f.right])

\* C19 as stated: after pivot selection on any range [left, right] the
\* element at right is the median of the three values that were at left, mid
\* and right, the element at left their minimum and the element at mid their
\* maximum; only these indices changed, with 3 comparisons and at most 3 swaps.
C19_MedianAtRightOnEveryRange ==
    AfterFirstSelection =>
        SelectionFootprint(Top(Main)) /\ MedianOrder(Top(Main))

\* C19 amended: that order holds after pivot selection on a range with
\* right - left >= 2; on a range of two elements (mid = left) the element at
\* right is the smaller and the element at left the larger of the two.  In
\* both cases only left, mid and right changed, with 3 comparisons and at
\* most 3 swaps.
C19_MedianAtRightFromThreeElements ==
    AfterFirstSelection =>
        LET f == Top(Main) IN
        /\ SelectionFootprint(f)
        /\ f.right - f.left >= 2 => MedianOrder(f)
        /\ f.right - f.left = 1 =>
              /\ arr[f.right] <= arr[f.left]
              /\ {arr[f.left], arr[f.right]} = {input[f.left], input[f.right]}

C19_Witness ==
    /\ AfterFirstSelection
    /\ Top(Main).fn = "par"
    /\ Top(Main).right - Top(Main).left >= 3
    /\ OpCount(threads[Main].log, "swap") = 2
    /\ input[Top(Main).left] # input[Top(Main).right]

\* A frame that is executing the median of three, and one that has begun it.
Selecting(f) == f.pc \in {"med1", "med2", "med3"}

BegunSelection(f) ==
    f.pc \in {"med1", "med2", "med3", "scan", "recL", "recR",
              "fork", "inline", "wait"}

\* C20 as stated: the median of three is executed only on ranges with
\* right - left >= 2; a range of fewer than three elements is handled without
\* pivot selection.
C20_SelectionOnlyFromThreeElements ==
    \A p \in Frames :
        Selecting(FrameAt(p)) => FrameAt(p).right - FrameAt(p).left >= 2

\* C20 amended: the median of three is executed on the ranges with
\* right - left >= 1 (two elements or more) and on no other: a frame that has
\* begun pivot selection has right - left >= 1, and a frame entered with
\* right - left >= 1 goes on to pivot selection, itself or in quicksort_parallel
\* by handing the same range to quicksort_seq; only ranges of fewer than two
\* elements are handled without it.
C20_SelectionFromTwoElements ==
    /\ [](\A p \in Frames :
             BegunSelection(FrameAt(p)) =>
                 FrameAt(p).right - FrameAt(p).left >= 1)
    /\ [][\A t \in DOMAIN threads :
             (/\ AtPc(t, {"seq", "par"}, {"entry"})
              /\ Top(t).right - Top(t).left >= 1
              /\ threads'[t] # threads[t])
             => LET s == threads'[t].stack
                    g == s[Len(s)]
                IN  /\ g.left = Top(t).left
                    /\ g.right = Top(t).right
                    /\ \/ Len(s) = Len(Stack(t)) /\ g.pc = "med1"
                       \/ /\ Len(s) = Len(Stack(t)) + 1
                          /\ Top(t).fn = "par"
                          /\ g.fn = "seq"
                          /\ g.pc = "entry"]_vars

C20_Witness ==
    \E t \in Tasks :
        /\ Running(t)
        /\ Selecting(Top(t))
        /\ Top(t).fn = "seq"
        /\ Top(t).right - Top(t).left = 1
        /\ arr[Top(t).left] < arr[Top(t).right]

\* C17: on matrices A (m x k) and B (k x n), whatever m, k and n, each of the
\* loop-interchange, parallel-loop, tiled, divide-and-conquer, AVX2 and
\* optimized multiplies returns the m x n matrix that naive_matrix_multiply
\* returns: every entry is the sum over all k.
C17_VariantsAgreeWithNaive ==
    (call \notin {"none", "naive"} /\ argA.cols = argB.rows) =>
        /\ error = "none"
        /\ result = naive_matrix_multiply(argA, argB).C

\* C18: each of the seven multiplies called with A.cols # B.rows throws
\* invalid_argument and returns no matrix, and no call changes A or B.
C18_IncompatibleDimensionsThrow ==
    /\ []((call # "none" /\ argA.cols # argB.rows) =>
             (error = "invalid_argument" /\ result = NoMatrix))
    /\ [][argA' = argA /\ argB' = argB]_vars

C18_Witness ==
    /\ call = "optimized"
    /\ error = "invalid_argument"
    /\ argA.cols < argB.rows
    /\ \E x \in DOMAIN argA.data : argA.data[x] # 0

----------------------------------------------------------------------------
\* The first partition step of a run, while it scans or when it has just
\* placed its pivot: it works on the whole vector, in quicksort_parallel or in
\* the quicksort_seq it delegated to, and the log of the caller's thread holds
\* the operations of the pivot selection followed by those of the partition.
InFirstPartition ==
    /\ Running(Main)
    /\ Tasks = {}
    /\ Top(Main).left = 0
    /\ Top(Main).right = Size(arr) - 1
    /\ Top(Main).pc \in {"scan", "recL", "fork"}

FirstPartitionDone == InFirstPartition /\ Top(Main).pc \in {"recL", "fork"}

\* The operations of the partition step in such a log: the pivot selection
\* makes 3 comparisons, so the scan begins with the fourth comparison.
PartitionOps(log) ==
    LET c == {k \in 1..Len(log) : log[k][1] = "cmp"} IN
    IF Cardinality(c) < 4 THEN <<>>
    ELSE SubSeq(log, CHOOSE k \in c : Cardinality({m \in c : m < k}) = 3,
                Len(log))

\* Every comparison of the partition step is of an element with the pivot.
AgainstPivot(ops, f) ==
    \A k \in 1..Len(ops) : ops[k][1] = "cmp" => ops[k][3] = f.right

\* C21 as stated: a partition step on [left, right] makes exactly right - left
\* comparisons of an element with the pivot and at most right - left swaps,
\* the placement of the pivot at its final index included.
C21_AtMostRangeSwaps ==
    FirstPartitionDone =>
        LET f == Top(Main)
            ops == PartitionOps(threads[Main].log)
        IN  /\ AgainstPivot(ops, f)
            /\ OpCount(ops, "cmp") = f.right - f.left
            /\ OpCount(ops, "swap") <= f.right - f.left

\* C21 amended: a partition step on [left, right] makes exactly right - left
\* comparisons of an element with the pivot (never more while it scans) and at
\* most right - left + 1 swaps, the placement of the pivot at its final index
\* included.
C21_AtMostRangePlusOneSwaps ==
    InFirstPartition =>
        LET f == Top(Main)
            ops == PartitionOps(threads[Main].log)
        IN  /\ AgainstPivot(ops, f)
            /\ OpCount(ops, "cmp") <= f.right - f.left
            /\ FirstPartitionDone =>
                  /\ OpCount(ops, "cmp") = f.right - f.left
                  /\ OpCount(ops, "swap") <= f.right - f.left + 1

C21_Witness ==
    /\ FirstPartitionDone
    /\ Top(Main).fn = "par"
    /\ Top(Main).right - Top(Main).left >= 3
    /\ OpCount(PartitionOps(threads[Main].log), "swap")
          = Top(Main).right - Top(Main).left + 1

----------------------------------------------------------------------------
\* A frame whose partition step has placed the pivot at index i and whose
\* sub-ranges are being handed on.
Partitioned(f) == f.pc \in {"recL", "recR", "fork", "inline", "wait"}

\* The frame g was called, or the task starting with g was created, on the
\* range [left, right].
BoundTo(g, left, right) == g.left = left /\ g.right = right

\* The calls and the task made by the frames that have partitioned: the
\* callee of quicksort_seq is on L = [left, i-1] while the caller is at its
\* first call and on R = [i+1, right] at its second, the task of
\* quicksort_parallel starts on L and its inline callee is on R.
ChildrenOnSubRanges ==
    /\ \A t \in DOMAIN threads : \A k \in 1..(Len(Stack(t)) - 1) :
          LET f == Stack(t)[k]
              g == Stack(t)[k + 1]
          IN  /\ (f.fn = "seq" /\ f.pc = "recR") =>
                     BoundTo(g, f.left, f.i - 1)
              /\ (f.fn = "seq" /\ f.pc = "ret") =>
                     BoundTo(g, f.i + 1, f.right)
              /\ (f.fn = "par" /\ f.pc = "wait") =>
                     BoundTo(g, f.i + 1, f.right)
    /\ \A id \in Tasks :
          Stack(id) # <<>> =>
              LET f == FrameAt(Creator(id)) IN
              /\ f.left_future = id
              /\ BoundTo(Stack(id)[1], f.left, f.i - 1)

\* C22 as stated: the sub-ranges L = [left, i-1] and R = [i+1, right] of a
\* partition step with pivot index i are disjoint and their union is the
\* parent range [left, right].
C22_SubRangesCoverParent ==
    \A p \in Frames :
        Partitioned(FrameAt(p)) =>
            LET f == FrameAt(p)
                L == f.left..(f.i - 1)
                R == (f.i + 1)..f.right
            IN  /\ L \cap R = {}
                /\ L \cup R = f.left..f.right

\* C22 amended: L = [left, i-1] and R = [i+1, right] are disjoint, neither
\* holds the pivot index i, and L, {i} and R together are exactly the parent
\* range [left, right]; the calls and the task of the frame are on L and R.
C22_SubRangesAndPivotCoverParent ==
    /\ \A p \in Frames :
          Partitioned(FrameAt(p)) =>
              LET f == FrameAt(p)
                  L == f.left..(f.i - 1)
                  R == (f.i + 1)..f.right
              IN  /\ L \cap R = {}
                  /\ f.i \notin L \cup R
                  /\ L \cup {f.i} \cup R = f.left..f.right
    /\ ChildrenOnSubRanges

C22_Witness ==
    \E id \in LiveTasks :
        LET f == FrameAt(Creator(id)) IN
        /\ Stack(id) # <<>>
        /\ f.pc = "wait"
        /\ Len(Stack(Creator(id)[1])) > Creator(id)[2]
        /\ f.left < f.i - 1
        /\ f.i < f.right

----------------------------------------------------------------------------
\* The number of forking frames on the path from the top-level call to the
\* quicksort_parallel frame at p: the frame under it on the same stack forked
\* and called it inline, the creator of a task forked and spawned it.
RECURSIVE ForksOnPath(_)
ForksOnPath(p) ==
    IF p[2] > 1 THEN ForksOnPath(<<p[1], p[2] - 1>>) + 1
    ELSE IF p[1] = Main THEN 0
    ELSE ForksOnPath(Creator(p[1])) + 1

\* C23: the depth of every quicksort_parallel frame is the number of forks on
\* the path from the top-level call to it (0 for the top-level frame, one more
\* for the spawned and for the inline child of a fork), it lies in
\* 0..MAX_DEPTH, and no step changes the depth of a frame.
C23_DepthCountsForks ==
    /\ [](\A p \in Frames :
             FrameAt(p).fn = "par" =>
                 /\ FrameAt(p).depth = ForksOnPath(p)
                 /\ FrameAt(p).depth >= 0
                 /\ FrameAt(p).depth <= MAX_DEPTH)
    /\ [][\A t \in DOMAIN threads :
             \A k \in 1..Len(Stack(t)) :
                 k <= Len(threads'[t].stack) =>
                     threads'[t].stack[k].depth = Stack(t)[k].depth]_vars

C23_Witness ==
    \E t \in LiveTasks :
        /\ Len(Stack(t)) >= 2
        /\ Stack(t)[1].pc = "wait"
        /\ Stack(t)[2].fn = "par"
        /\ Stack(t)[2].depth = 2
        /\ Stack(t)[2].depth = MAX_DEPTH
        /\ FrameAt(Creator(t)).depth = 0

----------------------------------------------------------------------------
\* C24: a step creates at most one task; the frame that creates it has
\* finished its partition step (it is at line 86) and holds no task yet, the
\* task starts as a quicksort_parallel call on the left sub-range [left, i-1]
\* and the frame goes on to its inline call; that call is made on the frame's
\* own thread, on the right sub-range [i+1, right], and is not held up by the
\* task; no task starts on the right sub-range.
C24_ForksLeftRunsRightInline ==
    /\ [](\A t \in DOMAIN threads :
             AtPc(t, {"par"}, {"inline"}) =>
                 /\ Top(t).left_future \in LiveTasks \cup {id \in Tasks : Done(id)}
                 /\ ENABLED Inline(t))
    /\ [](\A id \in Tasks :
             Stack(id) # <<>> =>
                 ~BoundTo(Stack(id)[1], FrameAt(Creator(id)).i + 1,
                          FrameAt(Creator(id)).right))
    /\ [][/\ Cardinality(DOMAIN threads' \ DOMAIN threads) <= 1
          /\ \A id \in DOMAIN threads' \ DOMAIN threads :
                LET p == Creator(id)
                    f == FrameAt(p)
                    g == threads'[p[1]].stack[p[2]]
                IN  /\ p \in Frames
                    /\ f.fn = "par"
                    /\ f.pc = "fork"
                    /\ f.left_future = NoFuture
                    /\ g.pc = "inline"
                    /\ g.left_future = id
                    /\ threads'[id].stack[1].fn = "par"
                    /\ BoundTo(threads'[id].stack[1], f.left, f.i - 1)
          /\ \A t \in DOMAIN threads :
                (AtPc(t, {"par"}, {"inline"}) /\ threads'[t] # threads[t]) =>
                    LET s == threads'[t].stack IN
                    /\ Len(s) = Len(Stack(t)) + 1
                    /\ s[Len(s) - 1].pc = "wait"
                    /\ s[Len(s)].fn = "par"
                    /\ BoundTo(s[Len(s)], Top(t).i + 1, Top(t).right)]_vars

C24_Witness ==
    \E id \in LiveTasks :
        LET p == Creator(id)
            f == FrameAt(p)
        IN  /\ Stack(id)[1].pc = "entry"
            /\ Len(Stack(id)) = 1
            /\ f.pc = "wait"
            /\ f.left < f.i - 1
            /\ Len(Stack(p[1])) = p[2] + 1
            /\ Top(p[1]).pc = "scan"
            /\ Top(p[1]).j > Top(p[1]).left

----------------------------------------------------------------------------
\* The range a task was created on holds at least one element.
TasksOnValidRanges ==
    \A id \in Tasks :
        Stack(id) # <<>> => Stack(id)[1].left <= Stack(id)[1].right

\* C25 as stated: whatever the input and SEQUENTIAL_THRESHOLD >= 0, every task
\* is created on a range with left <= right, never on an empty one.
C25_NoTaskOnEmptyRange == SEQUENTIAL_THRESHOLD >= 0 => TasksOnValidRanges

\* C25 amended: whatever the input and SEQUENTIAL_THRESHOLD >= 1, every task
\* is created on a range with left <= right, never on an empty one.
C25_NoTaskOnEmptyRangeFromThreeElements ==
    SEQUENTIAL_THRESHOLD >= 1 => TasksOnValidRanges

C25_Witness ==
    \E id \in LiveTasks :
        LET f == FrameAt(Creator(id)) IN
        /\ SEQUENTIAL_THRESHOLD = 1
        /\ Len(Stack(id)) = 1
        /\ Stack(id)[1].pc = "entry"
        /\ Stack(id)[1].left = Stack(id)[1].right
        /\ f.right - f.left = 2
        /\ f.depth = 1

----------------------------------------------------------------------------
\* A frame or an ancestor of the task id has failed: the thread of its
\* creator, or of a creator further up, is unwinding or has ended with an
\* exception.
RECURSIVE AncestorFailed(_)
AncestorFailed(id) ==
    LET t == Creator(id)[1] IN
    \/ threads[t].unwinding
    \/ IF t = Main THEN FALSE ELSE AncestorFailed(t)

\* C26: a task, once created, stays; it is never stopped from outside: while
\* it is live it can take a step unless it is waiting for a live task of its
\* own, whatever has failed around it; it unwinds only from a comparison of
\* its own thread that throws, and it ends only by leaving its last frame,
\* with an exception exactly when it was unwinding; and when the threads are
\* scheduled every task ends.
C26_TasksRunToCompletion ==
    /\ [](\A id \in Tasks :
             /\ ~Done(id) =>
                   \/ ENABLED Step(id)
                   \/ Top(id).left_future \in LiveTasks
             /\ Done(id) =>
                   /\ Stack(id) = <<>>
                   /\ threads[id].exc = threads[id].unwinding)
    /\ [][/\ DOMAIN threads \subseteq DOMAIN threads'
          /\ \A id \in Tasks :
                (threads'[id].unwinding /\ ~threads[id].unwinding) =>
                    /\ \/ AtPc(id, {"seq", "par"}, {"med1", "med2", "med3"})
                       \/ AtPc(id, {"seq", "par"}, {"scan"})
                    /\ threads'[id].stack = threads[id].stack
          /\ \A id \in Tasks :
                (Done(id)' /\ ~Done(id)) =>
                    /\ Len(Stack(id)) = 1
                    /\ \/ threads[id].unwinding
                       \/ Top(id).pc = "ret"
                       \/ Top(id).fn = "seq" /\ Top(id).pc = "entry"]_vars
    /\ <>[](\A id \in Tasks : Done(id))

C26_Witness ==
    \E id \in LiveTasks :
        /\ AncestorFailed(id)
        /\ ~threads[id].unwinding
        /\ Len(Stack(id)) >= 2
        /\ Top(id).pc = "scan"
        /\ Top(id).j > Top(id).left
        /\ arr # input

----------------------------------------------------------------------------
\* The frame at q belongs to the call at p: it is p or is above p on the same
\* stack, or it runs in a task created by such a frame, or in a task created
\* inside such a task.
RECURSIVE Within(_, _)
Within(q, p) ==
    IF q[1] = p[1] THEN q[2] >= p[2]
    ELSE IF q[1] = Main THEN FALSE
    ELSE Within(Creator(q[1]), p)

\* In a step: thread t is the one that acts, and the indices its step
\* compares or swaps (the operations its log grows by).
Acting(t) == threads'[t] # threads[t]

Touched(t) ==
    LET old == threads[t].log
        new == threads'[t].log
    IN  UNION {{new[k][2], new[k][3]} : k \in (Len(old) + 1)..Len(new)}

\* A step of a frame or task of the call p reads and writes only inside the
\* range of p and leaves every element outside it as it was.
CallsStayInRange ==
    \A t \in DOMAIN threads :
        Acting(t) =>
            \A p \in Frames :
                Within(<<t, Len(Stack(t))>>, p) =>
                    /\ Touched(t) \subseteq Range(FrameAt(p))
                    /\ \A k \in DOMAIN arr \ Range(FrameAt(p)) :
                          arr'[k] = arr[k]

\* C27 as stated: a call on [left, right], with the frames and tasks below it,
\* reads and writes only inside [left, right], and every element outside the
\* range keeps, in every state until the call has returned, the value it had
\* when the call started: no step taken while the call is in progress changes
\* such an element.
C27_OutsideUnchangedWhileCallRuns ==
    [][/\ CallsStayInRange
       /\ \A p \in Frames :
             (p[2] <= Len(threads'[p[1]].stack)) =>
                 \A k \in DOMAIN arr \ Range(FrameAt(p)) :
                     arr'[k] = arr[k]]_vars

\* C27 amended: a call on [left, right], with the frames and tasks below it,
\* reads and writes only inside [left, right]: none of its steps changes an
\* element outside the range (which can change during the call only by the
\* steps of frames and tasks that are not below it).
C27_CallChangesNothingOutside == [][CallsStayInRange]_vars

C27_Witness ==
    \E id, sub \in LiveTasks :
        /\ Creator(sub)[1] = id
        /\ Stack(id)[1].right < Size(arr) - 1
        /\ \E k \in 1..Len(threads[sub].log) :
              /\ threads[sub].log[k][1] = "swap"
              /\ threads[sub].log[k][2] # threads[sub].log[k][3]
        /\ arr # input

----------------------------------------------------------------------------
\* The value index k holds once a is sorted: the v with fewer than k + 1
\* elements below it and more than k elements not above it.
SortedValueAt(a, k) ==
    CHOOSE v \in {a[x] : x \in DOMAIN a} :
        /\ Cardinality({x \in DOMAIN a : a[x] < v}) <= k
        /\ Cardinality({x \in DOMAIN a : a[x] <= v}) > k

\* The indices some thread may still touch.
Unsettled == UNION {Footprint(t) : t \in DOMAIN threads}

\* C28: when a partition step has placed the pivot at index i, the element at
\* i is the one index i holds in the sorted sequence, and index i has left the
\* indices that may still be touched; an index never comes back among them,
\* and a step modifies only indices among them: so no later step of any frame
\* or task modifies index i.
C28_PlacedPivotIsFinal ==
    /\ [](\A p \in Frames :
             Partitioned(FrameAt(p)) =>
                 /\ FrameAt(p).i \notin Unsettled
                 /\ arr[FrameAt(p).i] = SortedValueAt(input, FrameAt(p).i))
    /\ [][/\ Unsettled' \subseteq Unsettled
          /\ \A k \in DOMAIN arr : arr'[k] # arr[k] => k \in Unsettled]_vars

C28_Witness ==
    /\ \E id \in Tasks :
          /\ Done(id)
          /\ ~threads[id].exc
          /\ OpCount(threads[id].log, "swap") >= 2
    /\ \E t \in DOMAIN threads :
          /\ AtPc(t, {"seq", "par"}, {"scan"})
          /\ Top(t).j > Top(t).left
    /\ \E p \in Frames :
          /\ Partitioned(FrameAt(p))
          /\ FrameAt(p).left < FrameAt(p).i
          /\ FrameAt(p).i < FrameAt(p).right
    /\ arr # input

----------------------------------------------------------------------------
\* quicksort_seq and quicksort_parallel as functions of the vector and the
\* configuration, the task of a fork run to its end before the inline call.
\* Lines 18-39 and 61-82: pivot selection and partition of [left, right].
SelectAndPartition(a, left, right) ==
    LET mid == left + (right - left) \div 2
        s1  == a[mid] < a[left]
        a1  == IF s1 THEN Swap(a, left, mid) ELSE a
        s2  == a1[right] < a1[left]
        a2  == IF s2 THEN Swap(a1, left, right) ELSE a1
        s3  == a2[mid] < a2[right]
        a3  == IF s3 THEN Swap(a2, mid, right) ELSE a2
        l3  == <<Cmp(mid, left)>> \o (IF s1 THEN <<Swp(mid, left)>> ELSE <<>>)
               \o <<Cmp(right, left)>> \o (IF s2 THEN <<Swp(right, left)>> ELSE <<>>)
               \o <<Cmp(mid, right)>> \o (IF s3 THEN <<Swp(mid, right)>> ELSE <<>>)
    IN  PartitionLoop(a3, left - 1, left, right, a3[right], l3)

\* A call as it appears on a stack: frame k of thread t; i is its pivot index,
\* -1 when the call does not partition.
Executed(t, k, fn, left, right, depth, i) ==
    [t |-> t, k |-> k, fn |-> fn, left |-> left, right |-> right,
     depth |-> depth, i |-> i]

\* quicksort_seq as frame k of thread t: the vector it leaves, the operations
\* of t in their order, and the calls made.
RECURSIVE SeqRun(_, _, _, _, _)
SeqRun(a, left, right, t, k) ==
    IF left >= right
    THEN [a |-> a, log |-> <<>>,
          frames |-> {Executed(t, k, "seq", left, right, 0, -1)}]
    ELSE LET p == SelectAndPartition(a, left, right)
             L == SeqRun(p.a, left, p.i - 1, t, k + 1)
             R == SeqRun(L.a, p.i + 1, right, t, k + 1)
         IN  [a |-> R.a, log |-> p.log \o L.log \o R.log,
              frames |-> {Executed(t, k, "seq", left, right, 0, p.i)}
                         \cup L.frames \cup R.frames]

\* quicksort_parallel as frame k of thread t: also the operations of every
\* task created, by task.
RECURSIVE ParRun(_, _, _, _, _, _)
ParRun(a, left, right, depth, t, k) ==
    IF right - left <= SEQUENTIAL_THRESHOLD \/ depth >= MAX_DEPTH
    THEN LET S == SeqRun(a, left, right, t, k + 1) IN
         [a |-> S.a, log |-> S.log, tasks |-> <<>>,
          frames |-> {Executed(t, k, "par", left, right, depth, -1)}
                     \cup S.frames]
    ELSE LET p  == SelectAndPartition(a, left, right)
             id == Append(t, k)
             T  == ParRun(p.a, left, p.i - 1, depth + 1, id, 1)
             I  == ParRun(T.a, p.i + 1, right, depth + 1, t, k + 1)
         IN  [a |-> I.a, log |-> p.log \o I.log,
              tasks |-> (id :> T.log) @@ T.tasks @@ I.tasks,
              frames |-> {Executed(t, k, "par", left, right, depth, p.i)}
                         \cup T.frames \cup I.frames]

\* The top-level call on the input (line 142).
ReferenceRun ==
    LET r == ParRun(input, 0, Size(input) - 1, 0, Main, 1) IN
    [a |-> r.a, logs |-> (Main :> r.log) @@ r.tasks, frames |-> r.frames]

\* C29: whatever the interleaving of the tasks, a top-level call in which
\* every comparison returns does what ReferenceRun, a function of the input
\* and the configuration alone, does: every call on a stack is one of its
\* calls, with the same range and depth and, once it has partitioned, the same
\* pivot index; every thread is one of its threads and makes its operations
\* in the same order; and when the top-level call has returned the vector is
\* the one it leaves, every thread has made all its operations, and no task is
\* left running.  This holds of every call of a sequence of top-level calls.
C29_SameRunUnderEverySchedule ==
    LET ref == ReferenceRun IN
    /\ \A p \in Frames :
          \E r \in ref.frames :
              /\ r.t = p[1] /\ r.k = p[2]
              /\ r.fn = FrameAt(p).fn
              /\ r.left = FrameAt(p).left /\ r.right = FrameAt(p).right
              /\ r.depth = FrameAt(p).depth
              /\ Partitioned(FrameAt(p)) => r.i = FrameAt(p).i
    /\ DOMAIN threads \subseteq DOMAIN ref.logs
    /\ \A t \in DOMAIN threads : IsPrefix(threads[t].log, ref.logs[t])
    /\ Done(Main) =>
          /\ arr = ref.a
          /\ DOMAIN threads = DOMAIN ref.logs
          /\ \A t \in DOMAIN threads : threads[t].log = ref.logs[t]
          /\ LiveTasks = {}

C29_Witness ==
    /\ Done(Main)
    /\ arr # input
    /\ Cardinality(Tasks) >= 2
    /\ \E t \in Tasks : Len(t) = 2 /\ OpCount(threads[t].log, "swap") >= 1

----------------------------------------------------------------------------
\* The rows [start_row, end_row) of a ThreadArgs.
Rows(a) == a.start_row..(a.end_row - 1)

\* C30: whatever num_threads >= 1 main works with (dividing MATRIX_SIZE or
\* not, larger than MATRIX_SIZE or not), the row ranges handed to the threads
\* are pairwise disjoint and, once all threads are created, their union is
\* 0..MATRIX_SIZE-1; a thread writes only elements of its own rows and no
\* element is written by two threads; and when main verifies, every thread
\* has been created, has ended and has been joined, every element has been
\* computed, and the verification succeeds.
C30_RowRangesPartitionTheMatrix ==
    /\ mainpc # "args" => num_threads >= 1
    /\ \A a, b \in DOMAIN thread_args :
          a # b => Rows(thread_args[a]) \cap Rows(thread_args[b]) = {}
    /\ mainpc \in {"join", "verify", "done"} =>
          /\ DOMAIN thread_args = 0..(num_threads - 1)
          /\ UNION {Rows(thread_args[a]) : a \in DOMAIN thread_args}
                = 0..(MATRIX_SIZE - 1)
    /\ \A e \in DOMAIN writers :
          /\ Cardinality(writers[e]) <= 1
          /\ \A w \in writers[e] : e[1] \in Rows(thread_args[w])
    /\ mainpc \in {"verify", "done"} =>
          /\ DOMAIN workers = 0..(num_threads - 1)
          /\ \A w \in DOMAIN workers :
                workers[w].pc = "exited" /\ workers[w].joined
          /\ \A e \in DOMAIN writers : writers[e] # {}
    /\ mainpc = "done" => verified

C30_Witness ==
    /\ mainpc = "done"
    /\ num_threads = 2
    /\ MATRIX_SIZE = 3
    /\ writers[<<0, 0>>] # writers[<<2, 2>>]

=============================================================================
